---- MODULE Spec2Model ----
(***************************************************************************)
(* elastauth: the credential issuance and caching workflow of check_user   *)
(* (src/src/app.py), with the redis cache wrapper (src/src/models/cache.py)*)
(* and the elasticsearch client (src/src/models/elasticsearch.py).         *)
(*                                                                         *)
(* Strings and byte strings are sequences of character codes (0..255).     *)
(***************************************************************************)
EXTENDS Integers, Sequences, FiniteSets, TLC

(***************************************************************************)
(* Bounds of the model.                                                    *)
(***************************************************************************)
\* number of request handlers that may run (concurrently or one after another)
NReq == 2
\* Cache.time_to_live, REDIS_EXPIRE_SECONDS scaled down to a few seconds
FullTTL == 2
\* longest Remote-Groups header value explored by the role mapping
MaxHdrLen == 3
\* the longest plaintext given to the cipher is one byte over MaxBlocks blocks
MaxBlocks == 2
\* longest username the cache key is computed for
MaxNameLen == 2

(***************************************************************************)
(* Program constants.                                                      *)
(***************************************************************************)
PASSWORD_LENGTH == 13
BLOCK_SIZE == 16

\* character codes: "," of split(","), ":" of "{}:{}", "=" of the base64 padding
ChComma == 44
ChColon == 58
ChEq == 61

(***************************************************************************)
(* Byte helpers.                                                           *)
(***************************************************************************)
RECURSIVE XorBits(_, _, _)
XorBits(a, b, n) ==
    IF n = 0 THEN 0
    ELSE (((a % 2) + (b % 2)) % 2) + 2 * XorBits(a \div 2, b \div 2, n - 1)

Xor(a, b) == XorBits(a, b, 8)

RECURSIVE SumSeq(_)
SumSeq(s) == IF s = <<>> THEN 0 ELSE Head(s) + SumSeq(Tail(s))

\* os.urandom / Random.new().read: n bytes, determined by the outcome `seed`
\* of the random source; every call draws a fresh outcome (the request's number)
RandomBytes(n, seed) == [i \in 1..n |-> ((seed * 37) + (i * 11)) % 256]

(***************************************************************************)
(* base64 (RFC 4648), as base64.b64encode / b64decode / urlsafe_b64encode. *)
(***************************************************************************)
B64Char(s, urlsafe) ==
    IF s < 26 THEN 65 + s
    ELSE IF s < 52 THEN 97 + (s - 26)
    ELSE IF s < 62 THEN 48 + (s - 52)
    ELSE IF s = 62 THEN (IF urlsafe THEN 45 ELSE 43)
    ELSE (IF urlsafe THEN 95 ELSE 47)

B64Sextet(c) ==
    IF c >= 65 /\ c <= 90 THEN c - 65
    ELSE IF c >= 97 /\ c <= 122 THEN c - 97 + 26
    ELSE IF c >= 48 /\ c <= 57 THEN c - 48 + 52
    ELSE IF c = 43 \/ c = 45 THEN 62
    ELSE 63

RECURSIVE B64EncodeWith(_, _)
B64EncodeWith(b, urlsafe) ==
    IF Len(b) = 0 THEN <<>>
    ELSE IF Len(b) = 1 THEN
        LET n == b[1] * 65536
        IN  << B64Char(n \div 262144, urlsafe), B64Char((n \div 4096) % 64, urlsafe),
               ChEq, ChEq >>
    ELSE IF Len(b) = 2 THEN
        LET n == b[1] * 65536 + b[2] * 256
        IN  << B64Char(n \div 262144, urlsafe), B64Char((n \div 4096) % 64, urlsafe),
               B64Char((n \div 64) % 64, urlsafe), ChEq >>
    ELSE
        LET n == b[1] * 65536 + b[2] * 256 + b[3]
        IN  << B64Char(n \div 262144, urlsafe), B64Char((n \div 4096) % 64, urlsafe),
               B64Char((n \div 64) % 64, urlsafe), B64Char(n % 64, urlsafe) >>
            \o B64EncodeWith(SubSeq(b, 4, Len(b)), urlsafe)

B64Encode(b) == B64EncodeWith(b, FALSE)

RECURSIVE B64Decode(_)
B64Decode(e) ==
    IF Len(e) < 4 THEN <<>>
    ELSE
        LET s1 == B64Sextet(e[1])
            s2 == B64Sextet(e[2])
            s3 == IF e[3] = ChEq THEN 0 ELSE B64Sextet(e[3])
            s4 == IF e[4] = ChEq THEN 0 ELSE B64Sextet(e[4])
            n  == s1 * 262144 + s2 * 4096 + s3 * 64 + s4
            b1 == n \div 65536
            b2 == (n \div 256) % 256
            b3 == n % 256
        IN  (IF e[3] = ChEq THEN <<b1>>
             ELSE IF e[4] = ChEq THEN <<b1, b2>>
             ELSE <<b1, b2, b3>>)
            \o B64Decode(SubSeq(e, 5, Len(e)))

RECURSIVE RStripEq(_)
RStripEq(s) ==
    IF Len(s) > 0 /\ s[Len(s)] = ChEq THEN RStripEq(SubSeq(s, 1, Len(s) - 1)) ELSE s

\* secrets.token_urlsafe(nbytes): base64url of nbytes random bytes, padding stripped
TokenUrlsafe(nbytes, seed) == RStripEq(B64EncodeWith(RandomBytes(nbytes, seed), TRUE))

\* str.encode('utf-8') / bytes.decode('utf-8') for code points below 256;
\* ASCII text is its own encoding
RECURSIVE Utf8Encode(_)
Utf8Encode(s) ==
    IF \A i \in DOMAIN s : s[i] < 128 THEN s
    ELSE (IF Head(s) < 128 THEN <<Head(s)>>
          ELSE <<192 + (Head(s) \div 64), 128 + (Head(s) % 64)>>)
         \o Utf8Encode(Tail(s))

RECURSIVE Utf8Decode(_)
Utf8Decode(b) ==
    IF \A i \in DOMAIN b : b[i] < 128 THEN b
    ELSE IF Head(b) < 128 \/ Len(b) = 1 THEN <<Head(b)>> \o Utf8Decode(Tail(b))
    ELSE <<((Head(b) - 192) * 64) + (b[2] - 128)>> \o Utf8Decode(Tail(Tail(b)))

(***************************************************************************)
(* The cipher: trans, encrypt, decrypt of app.py.  md5 and the AES block   *)
(* function are library code; they are stood in for by a keyed mixing      *)
(* function of the same shape (16 bytes in, 16 bytes out).  CFB is         *)
(* PyCryptodome's default, 8-bit segments.                                 *)
(***************************************************************************)
Md5Digest(key) ==
    [i \in 1..16 |-> ((SumSeq(key) * 31) + (Len(key) * 7) + (i * 13)) % 256]

AESBlock(k, block) ==
    [i \in 1..BLOCK_SIZE |-> (k[i] + (3 * block[i]) + SumSeq(block) + i) % 256]

RECURSIVE CfbEncrypt(_, _, _)
CfbEncrypt(k, reg, msg) ==
    IF msg = <<>> THEN <<>>
    ELSE LET c == Xor(Head(msg), AESBlock(k, reg)[1])
         IN  <<c>> \o CfbEncrypt(k, Tail(reg) \o <<c>>, Tail(msg))

\* decryption shifting the plaintext byte, not the ciphertext byte, into the
\* register
RECURSIVE CfbDecryptPlainFeedback(_, _, _)
CfbDecryptPlainFeedback(k, reg, ct) ==
    IF ct = <<>> THEN <<>>
    ELSE LET p == Xor(Head(ct), AESBlock(k, reg)[1])
         IN  <<p>> \o CfbDecryptPlainFeedback(k, Tail(reg) \o <<p>>, Tail(ct))

RECURSIVE CfbDecrypt(_, _, _)
CfbDecrypt(k, reg, ct) ==
    IF ct = <<>> THEN <<>>
    ELSE LET p == Xor(Head(ct), AESBlock(k, reg)[1])
         IN  <<p>> \o CfbDecrypt(k, Tail(reg) \o <<Head(ct)>>, Tail(ct))

trans(key) == Md5Digest(key)

\* encrypt(message, passphrase); ivSeed is the outcome of Random.new().read
encrypt(message, passphrase, ivSeed) ==
    LET key == trans(passphrase)
        IV  == RandomBytes(BLOCK_SIZE, ivSeed)
    IN  B64Encode(IV \o CfbEncrypt(key, IV, message))

decrypt(encrypted, passphrase) ==
    LET key == trans(passphrase)
        raw == B64Decode(encrypted)
        IV  == SubSeq(raw, 1, BLOCK_SIZE)
    IN  CfbDecrypt(key, IV, SubSeq(raw, BLOCK_SIZE + 1, Len(raw)))

(***************************************************************************)
(* Request headers and get_user_attribute.                                 *)
(* A headers object is a function from the names of the headers present to *)
(* their values; a Python value that may be None is [isNone, val].         *)
(***************************************************************************)
PyNone == [isNone |-> TRUE, val |-> <<>>]
PyStr(s) == [isNone |-> FALSE, val |-> s]

\* Python truthiness of an optional string
Truthy(v) == ~v.isNone /\ v.val # <<>>

\* request.headers.get(name)
HeadersGet(headers, name) ==
    IF name \in DOMAIN headers THEN PyStr(headers[name]) ELSE PyNone

required_headers == {"User"}

\* get_user_attribute(attribute): [raised, val]; raised is the AppException
get_user_attribute(headers, attribute) ==
    LET header_name == "Remote-" \o attribute
        val == HeadersGet(headers, header_name)
    IN  IF ~Truthy(val) /\ attribute \in required_headers
        THEN [raised |-> TRUE, val |-> PyNone]
        ELSE [raised |-> FALSE, val |-> val]

(***************************************************************************)
(* str.split(sep) and the role mapping of check_user (lines 141-154).      *)
(***************************************************************************)
RECURSIVE SplitAcc(_, _, _)
SplitAcc(s, sep, cur) ==
    IF s = <<>> THEN <<cur>>
    ELSE IF Head(s) = sep THEN <<cur>> \o SplitAcc(Tail(s), sep, <<>>)
    ELSE SplitAcc(Tail(s), sep, Append(cur, Head(s)))

Split(s, sep) == SplitAcc(s, sep, <<>>)

\* for mapping in group_mappings[group]: roles.append(mapping)
RECURSIVE AppendMappings(_, _)
AppendMappings(roles, mappings) ==
    IF mappings = <<>> THEN roles
    ELSE AppendMappings(Append(roles, Head(mappings)), Tail(mappings))

\* the loop leaving at the first group that has a mapping
RECURSIVE GroupLoopFirstMatch(_, _, _)
GroupLoopFirstMatch(roles, user_groups, group_mappings) ==
    IF user_groups = <<>> THEN roles
    ELSE LET group == Head(user_groups)
         IN  IF group \in DOMAIN group_mappings
             THEN AppendMappings(roles, group_mappings[group])
             ELSE GroupLoopFirstMatch(roles, Tail(user_groups), group_mappings)

\* for group in user_groups: if group in group_mappings: ...
RECURSIVE GroupLoop(_, _, _)
GroupLoop(roles, user_groups, group_mappings) ==
    IF user_groups = <<>> THEN roles
    ELSE LET group == Head(user_groups)
         IN  GroupLoop(IF group \in DOMAIN group_mappings
                       THEN AppendMappings(roles, group_mappings[group])
                       ELSE roles,
                       Tail(user_groups), group_mappings)

\* lines 143-154; a group_mappings that is None or {} is the empty function
MapRoles(user_groups, config) ==
    LET mapped == IF DOMAIN config.group_mappings # {}
                  THEN GroupLoop(<<>>, user_groups, config.group_mappings)
                  ELSE <<>>
    IN  IF Len(mapped) = 0 THEN <<config.default_role>> ELSE mapped

\* lines 141-154: [raised, user_groups, roles]; raised is the AttributeError of
\* None.split when the Remote-Groups header is absent
UserRoles(headers, config) ==
    LET hdr == HeadersGet(headers, "Remote-Groups")
    IN  IF hdr.isNone
        THEN [raised |-> TRUE, user_groups |-> <<>>, roles |-> <<>>]
        ELSE LET user_groups == Split(hdr.val, ChComma)
             IN  [raised |-> FALSE, user_groups |-> user_groups,
                  roles |-> MapRoles(user_groups, config)]

(***************************************************************************)
(* The state of the service and of its collaborators.                      *)
(***************************************************************************)
VARIABLES
    redis,                  \* the redis store: key -> [value, ttl], present keys only
    directory,              \* elasticsearch _security/user: username -> last body posted
    ELASTICSEARCH_OBJECT,   \* Factory.ELASTICSEARCH_OBJECT: NoObject or the client
    CACHE_OBJECT,           \* Factory.CACHE_OBJECT: NoObject or the Cache
    environ,                \* os.environ: SECRET_KEY, KIBANA_USER_PASSWORD, ELASTAUTH_CACHE_EXTEND
    config,                 \* app.config['config']
    pc,                     \* per request: where check_user stands
    headers,                \* per request: request.headers
    password,               \* per request: the local `password`
    response,               \* per request: what the client receives
    calls,                  \* per request: the cache / directory calls made so far
    posted,                 \* per request: its POSTs to _security/user and their status codes
    lastIssued,             \* per username: the plaintext of the last Cache.set
    window,                 \* per username: requests that issued in the current TTL window
    constructed,            \* how many objects of each client class were constructed
    cache,                  \* per request: the local `cache`
    elastic                 \* per request: the local `elastic`

vars == << redis, directory, ELASTICSEARCH_OBJECT, CACHE_OBJECT, environ, config,
           pc, headers, password, response, calls, posted, lastIssued, window,
           constructed, cache, elastic >>

\* None, where an object is expected; an object is named by its rank among the
\* objects of its class, in the order of their construction
NoObject == 0

Req == 1..NReq

\* the usernames "a" and "b"
Alice == <<97>>
Bob == <<98>>
Users == {Alice, Bob}

\* app.config['SECRET_KEY'] = os.environ.get("SECRET_KEY", default="")
SECRET_KEY == environ.SECRET_KEY

\* an operator-supplied KIBANA_USER_PASSWORD ("pw")
FixedPassword == <<112, 119>>

NoHeaders == [n \in {} |-> <<>>]

\* the requests of the service model: no identity, an empty identity, an
\* identity alone, an identity with a group
RequestHeaders ==
    {NoHeaders, "Remote-User" :> <<>>}
    \cup {"Remote-User" :> u : u \in Users}
    \cup {("Remote-User" :> u) @@ ("Remote-Groups" :> <<97>>) : u \in Users}

\* group_mappings: {"a": ["editor"], "b": ["viewer", "admin"]}
Mappings == (<<97>> :> <<"editor">>) @@ (<<98>> :> <<"viewer", "admin">>)
NoMappings == [g \in {} |-> <<>>]
DefaultConfig == [group_mappings |-> Mappings, default_role |-> "default"]

\* the environments of the service model; the secret key is "sk"
Environments ==
    [SECRET_KEY : {<<115, 107>>},
     KIBANA_USER_PASSWORD : {PyNone, PyStr(FixedPassword)},
     ELASTAUTH_CACHE_EXTEND : {"true", "false"}]

NoResponse == [status |-> 0, kind |-> "none", error |-> "", Authorization |-> <<>>]
\* return {"name": ..., "info": "Please provide required headers"}
InfoResponse == [status |-> 200, kind |-> "info", error |-> "", Authorization |-> <<>>]
\* return {"error": str(app_exc)}, 500
ErrorResponse(message) ==
    [status |-> 500, kind |-> "error", error |-> message, Authorization |-> <<>>]
\* an exception other than AppException leaves check_user: the framework answers
\* with its own 500 page; `error` is the exception that left the handler
UnhandledResponse(exception) ==
    [status |-> 500, kind |-> "unhandled", error |-> exception, Authorization |-> <<>>]

\* "Basic "
BasicPrefix == <<66, 97, 115, 105, 99, 32>>

\* lines 181-187
AuthResponse(user, decrypted_pass) ==
    [status |-> 200, kind |-> "auth", error |-> "",
     Authorization |->
         BasicPrefix \o B64Encode(Utf8Encode(user \o <<ChColon>> \o decrypted_pass))]

\* the key without the username
CacheKeyWithoutUser(user) == <<101, 108, 97, 115, 116, 97, 117, 116, 104, 45>>

\* "elastauth-{}".format(user)
CacheKey(user) == <<101, 108, 97, 115, 116, 97, 117, 116, 104, 45>> \o user

User(r) == headers[r]["Remote-User"]

\* Cache.exists, Cache.ttl (redis: -2 for a key that does not exist)
CacheExists(key) == key \in DOMAIN redis
CacheTtl(key) == IF key \in DOMAIN redis THEN redis[key].ttl ELSE -2

Init ==
    /\ redis = [k \in {} |-> 0]
    /\ directory = [u \in {} |-> 0]
    /\ ELASTICSEARCH_OBJECT = NoObject
    /\ CACHE_OBJECT = NoObject
    /\ environ \in Environments
    /\ config = DefaultConfig
    /\ pc = [r \in Req |-> "idle"]
    /\ headers = [r \in Req |-> NoHeaders]
    /\ password = [r \in Req |-> <<>>]
    /\ response = [r \in Req |-> NoResponse]
    /\ calls = [r \in Req |-> <<>>]
    /\ posted = [r \in Req |-> <<>>]
    /\ lastIssued = [u \in Users |-> <<>>]
    /\ window = [u \in Users |-> {}]
    /\ constructed = [Cache |-> 0, Elasticsearch |-> 0]
    /\ cache = [r \in Req |-> NoObject]
    /\ elastic = [r \in Req |-> NoObject]

\* check_user returns (or an exception leaves it): the response goes out and
\* the request, its locals and its call log are dropped
Finish(r, resp) ==
    /\ pc' = [pc EXCEPT ![r] = "done"]
    /\ response' = [response EXCEPT ![r] = resp]
    /\ headers' = [headers EXCEPT ![r] = NoHeaders]
    /\ password' = [password EXCEPT ![r] = <<>>]
    /\ calls' = [calls EXCEPT ![r] = <<>>]
    /\ cache' = [cache EXCEPT ![r] = NoObject]
    /\ elastic' = [elastic EXCEPT ![r] = NoObject]

Log(r, call) == calls' = [calls EXCEPT ![r] = Append(@, call)]

(***************************************************************************)
(* A request arrives at a free handler (handlers are taken in order).      *)
(***************************************************************************)
Receive(r) ==
    /\ pc[r] = "idle"
    /\ \A q \in Req : q < r => pc[q] # "idle"
    /\ \E h \in RequestHeaders : headers' = [headers EXCEPT ![r] = h]
    /\ pc' = [pc EXCEPT ![r] = "gate"]
    /\ UNCHANGED << redis, directory, ELASTICSEARCH_OBJECT, CACHE_OBJECT, environ,
                    config, password, response, calls, posted, lastIssued, window,
                    constructed, cache, elastic >>

(***************************************************************************)
(* check_user, lines 119-129: the identity gate and Factory.get_cache.     *)
(* get_cache tests the singleton (line 34) in one step and, when it found  *)
(* None, constructs and assigns the Cache (line 35) in a later one: there  *)
(* is no lock between the two.                                             *)
(***************************************************************************)
Gate(r) ==
    /\ pc[r] = "gate"
    /\ LET user == get_user_attribute(headers[r], "User")
       IN  IF user.raised
           THEN Finish(r, ErrorResponse("Header not provided: Remote-User"))
           ELSE IF ~Truthy(user.val)
           THEN Finish(r, InfoResponse)
           ELSE IF CACHE_OBJECT = NoObject
           THEN /\ pc' = [pc EXCEPT ![r] = "get_cache"]
                /\ UNCHANGED << response, headers, password, calls, cache, elastic >>
           ELSE /\ pc' = [pc EXCEPT ![r] = "check"]
                /\ cache' = [cache EXCEPT ![r] = CACHE_OBJECT]
                /\ UNCHANGED << response, headers, password, calls, elastic >>
    /\ UNCHANGED << redis, directory, ELASTICSEARCH_OBJECT, CACHE_OBJECT, environ,
                    config, posted, lastIssued, window, constructed >>

\* lines 35-41: Cache(...) is constructed, stored in the singleton and returned
get_cache(r) ==
    /\ pc[r] = "get_cache"
    /\ constructed' = [constructed EXCEPT !.Cache = @ + 1]
    /\ CACHE_OBJECT' = constructed'.Cache
    /\ cache' = [cache EXCEPT ![r] = constructed'.Cache]
    /\ pc' = [pc EXCEPT ![r] = "check"]
    /\ UNCHANGED << redis, directory, ELASTICSEARCH_OBJECT, environ, config, headers,
                    password, response, calls, posted, lastIssued, window, elastic >>

(***************************************************************************)
(* Line 131, the validity check, and line 132, the password.               *)
(***************************************************************************)
\* the validity check finding every entry expired
ExpiredAlways(key) == TRUE

\* the comparison of line 131 turned round
ExpiredSignFlipped(key) == ~CacheExists(key) \/ CacheTtl(key) >= 0

Expired(key) == ~CacheExists(key) \/ CacheTtl(key) <= 0

\* os.getenv("KIBANA_USER_PASSWORD", secrets.token_urlsafe(PASSWORD_LENGTH))
NewPassword(seed) ==
    IF environ.KIBANA_USER_PASSWORD.isNone
    THEN TokenUrlsafe(PASSWORD_LENGTH, seed)
    ELSE environ.KIBANA_USER_PASSWORD.val

CacheMiss(r) ==
    /\ pc[r] = "check"
    /\ Expired(CacheKey(User(r)))
    /\ password' = [password EXCEPT ![r] = NewPassword(r)]
    /\ pc' = [pc EXCEPT ![r] = "connect"]
    /\ Log(r, "exists_ttl:expired")
    /\ UNCHANGED << redis, directory, ELASTICSEARCH_OBJECT, CACHE_OBJECT, environ,
                    config, headers, response, posted, lastIssued, window,
                    constructed, cache, elastic >>

CacheHit(r) ==
    /\ pc[r] = "check"
    /\ ~Expired(CacheKey(User(r)))
    /\ pc' = [pc EXCEPT ![r] = "extend"]
    /\ Log(r, "exists_ttl:valid")
    /\ UNCHANGED << redis, directory, ELASTICSEARCH_OBJECT, CACHE_OBJECT, environ,
                    config, headers, password, response, posted, lastIssued, window,
                    constructed, cache, elastic >>

(***************************************************************************)
(* Lines 134-137: Factory.get_elasticsearch and Elasticsearch.__init__.    *)
(* get_elasticsearch tests the singleton (line 45) and returns it when it  *)
(* is set; when it found None it constructs the client, whose __init__     *)
(* calls _security/_authenticate: on a 200 the client is stored in the     *)
(* singleton and returned, otherwise __init__ raises, nothing is stored    *)
(* and check_user turns the exception into an AppException.  No lock is    *)
(* held between the test and the assignment.                               *)
(***************************************************************************)
get_elasticsearch(r) ==
    /\ pc[r] = "connect"
    /\ IF ELASTICSEARCH_OBJECT = NoObject
       THEN /\ pc' = [pc EXCEPT ![r] = "authenticate"]
            /\ UNCHANGED << elastic, calls >>
       ELSE /\ elastic' = [elastic EXCEPT ![r] = ELASTICSEARCH_OBJECT]
            /\ pc' = [pc EXCEPT ![r] = "upsert"]
            /\ Log(r, "get_elasticsearch")
    /\ UNCHANGED << redis, directory, ELASTICSEARCH_OBJECT, CACHE_OBJECT, environ,
                    config, headers, password, response, posted, lastIssued, window,
                    constructed, cache >>

ConnectOk(r) ==
    /\ pc[r] = "authenticate"
    /\ constructed' = [constructed EXCEPT !.Elasticsearch = @ + 1]
    /\ ELASTICSEARCH_OBJECT' = constructed'.Elasticsearch
    /\ elastic' = [elastic EXCEPT ![r] = constructed'.Elasticsearch]
    /\ pc' = [pc EXCEPT ![r] = "upsert"]
    /\ Log(r, "get_elasticsearch")
    /\ UNCHANGED << redis, directory, CACHE_OBJECT, environ, config, headers,
                    password, response, posted, lastIssued, window, cache >>

ConnectFail(r) ==
    /\ pc[r] = "authenticate"
    /\ Finish(r, ErrorResponse("Error whilst connecting to elasticsearch"))
    /\ UNCHANGED << redis, directory, ELASTICSEARCH_OBJECT, CACHE_OBJECT, environ,
                    config, posted, lastIssued, window, constructed >>

(***************************************************************************)
(* Elasticsearch.update_user: what the call gives check_user for the       *)
(* status code of the POST.  `raise UserCreationState.ERROR` raises an     *)
(* enum member, which is no exception: Python raises TypeError instead.    *)
(***************************************************************************)
\* the status code is not looked at
update_user_unchecked(status_code, created) ==
    [raised |-> "none", state |-> IF created THEN "CREATED" ELSE "UPDATED"]

update_user(status_code, created) ==
    IF status_code # 200
    THEN [raised |-> "TypeError", state |-> "none"]
    ELSE [raised |-> "none", state |-> IF created THEN "CREATED" ELSE "UPDATED"]

StatusCodes == {200, 500}

Live(key) == CacheExists(key) /\ CacheTtl(key) > 0

(***************************************************************************)
(* Lines 141-167: the groups, the roles, the upsert and its outcome.       *)
(***************************************************************************)
Upsert(r) ==
    /\ pc[r] = "upsert"
    /\ LET user == User(r)
           ur   == UserRoles(headers[r], config)
       IN  IF ur.raised
           THEN \* None.split: AttributeError, before the directory is called
                /\ Finish(r, UnhandledResponse("AttributeError"))
                /\ UNCHANGED << directory, posted, window >>
           ELSE \E status_code \in StatusCodes :
                LET res == update_user(status_code, user \notin DOMAIN directory)
                IN  /\ posted' = [posted EXCEPT ![r] =
                           Append(@, [username |-> user, password |-> password[r],
                                      roles |-> ur.roles, status_code |-> status_code])]
                    /\ IF res.raised # "none"
                       THEN /\ Finish(r, UnhandledResponse(res.raised))
                            /\ UNCHANGED << directory, window >>
                       ELSE IF res.state = "ERROR"
                       THEN /\ Finish(r, ErrorResponse("Erorr whilst creating/updating user"))
                            /\ UNCHANGED << directory, window >>
                       ELSE /\ directory' =
                                IF status_code = 200
                                THEN (user :> [password |-> password[r],
                                               roles |-> ur.roles,
                                               metadata |-> [groups |-> ur.user_groups]])
                                     @@ directory
                                ELSE directory
                            /\ window' = IF Live(CacheKey(user))
                                         THEN [window EXCEPT ![user] = @ \cup {r}]
                                         ELSE window
                            /\ pc' = [pc EXCEPT ![r] = "set"]
                            /\ Log(r, "update_user")
                            /\ UNCHANGED << response, headers, password, cache,
                                            elastic >>
    /\ UNCHANGED << redis, ELASTICSEARCH_OBJECT, CACHE_OBJECT, environ, config,
                    lastIssued, constructed >>

(***************************************************************************)
(* Cache.set, Cache.expire: the store after the call.                      *)
(***************************************************************************)
time_to_live == FullTTL

\* redis.set without the expiry: the key never expires (redis: TTL -1)
CacheSetNoExpiry(key, value) == (key :> [value |-> value, ttl |-> -1]) @@ redis

CacheSet(key, value) == (key :> [value |-> value, ttl |-> time_to_live]) @@ redis

\* the expiry removed instead of renewed (redis: TTL -1)
CachePersist(key) ==
    IF key \in DOMAIN redis THEN [redis EXCEPT ![key].ttl = -1] ELSE redis

CacheExpire(key) ==
    IF key \in DOMAIN redis THEN [redis EXCEPT ![key].ttl = time_to_live] ELSE redis

\* lines 169-170
Set(r) ==
    /\ pc[r] = "set"
    /\ LET encrypted_password ==
               encrypt(Utf8Encode(password[r]), Utf8Encode(SECRET_KEY), r)
       IN  redis' = CacheSet(CacheKey(User(r)), encrypted_password)
    /\ lastIssued' = [lastIssued EXCEPT ![User(r)] = password[r]]
    /\ window' = [window EXCEPT ![User(r)] =
                     IF Live(CacheKey(User(r))) THEN @ \cup {r} ELSE {r}]
    /\ pc' = [pc EXCEPT ![r] = "extend"]
    /\ Log(r, "set")
    /\ UNCHANGED << directory, ELASTICSEARCH_OBJECT, CACHE_OBJECT, environ, config,
                    headers, password, response, posted, constructed, cache, elastic >>

\* line 174 without the ELASTAUTH_CACHE_EXTEND test
ShouldExtendUnconditionally(key) ==
    /\ CacheTtl(key) > 0
    /\ CacheTtl(key) < time_to_live

\* the condition of line 174
ShouldExtend(key) ==
    /\ environ.ELASTAUTH_CACHE_EXTEND = "true"
    /\ CacheTtl(key) > 0
    /\ CacheTtl(key) < time_to_live

\* lines 174-176
Extend(r) ==
    /\ pc[r] = "extend"
    /\ IF ShouldExtend(CacheKey(User(r)))
       THEN /\ redis' = CacheExpire(CacheKey(User(r)))
            /\ Log(r, "expire")
       ELSE UNCHANGED << redis, calls >>
    /\ pc' = [pc EXCEPT ![r] = "get"]
    /\ UNCHANGED << directory, ELASTICSEARCH_OBJECT, CACHE_OBJECT, environ, config,
                    headers, password, response, posted, lastIssued, window,
                    constructed, cache, elastic >>

\* lines 178-187 when the key is there
GetOk(r) ==
    /\ pc[r] = "get"
    /\ CacheExists(CacheKey(User(r)))
    /\ LET stored == Utf8Decode(redis[CacheKey(User(r))].value)
           decrypted_pass == Utf8Decode(decrypt(stored, Utf8Encode(SECRET_KEY)))
       IN  Finish(r, AuthResponse(User(r), decrypted_pass))
    /\ UNCHANGED << redis, directory, ELASTICSEARCH_OBJECT, CACHE_OBJECT, environ,
                    config, posted, lastIssued, window, constructed >>

\* line 180 when the key is gone: redis.get gives None, None.decode raises
\* AttributeError
GetMissing(r) ==
    /\ pc[r] = "get"
    /\ ~CacheExists(CacheKey(User(r)))
    /\ Finish(r, UnhandledResponse("AttributeError"))
    /\ UNCHANGED << redis, directory, ELASTICSEARCH_OBJECT, CACHE_OBJECT, environ,
                    config, posted, lastIssued, window, constructed >>

\* a redis call that fails (connection error): the redis exception is no
\* AppException and leaves check_user
CacheFail(r) ==
    /\ pc[r] \in {"check", "set", "extend", "get"}
    /\ Finish(r, UnhandledResponse("ConnectionError"))
    /\ UNCHANGED << redis, directory, ELASTICSEARCH_OBJECT, CACHE_OBJECT, environ,
                    config, posted, lastIssued, window, constructed >>

(***************************************************************************)
(* A second passes: redis counts every TTL down; a key whose TTL reads 0   *)
(* (less than a second left) is gone after it.                            *)
(***************************************************************************)
Tick ==
    /\ DOMAIN redis # {}
    /\ redis' = [k \in {j \in DOMAIN redis : redis[j].ttl > 0} |->
                    [redis[k] EXCEPT !.ttl = @ - 1]]
    /\ window' = [u \in Users |-> IF CacheKey(u) \in DOMAIN redis
                                     /\ redis[CacheKey(u)].ttl > 1
                                  THEN window[u] ELSE {}]
    /\ UNCHANGED << directory, ELASTICSEARCH_OBJECT, CACHE_OBJECT, environ, config,
                    pc, headers, password, response, calls, posted, lastIssued,
                    constructed, cache, elastic >>

Step(r) ==
    \/ Gate(r)
    \/ get_cache(r)
    \/ CacheMiss(r)
    \/ CacheHit(r)
    \/ get_elasticsearch(r)
    \/ ConnectOk(r)
    \/ ConnectFail(r)
    \/ Upsert(r)
    \/ Set(r)
    \/ Extend(r)
    \/ GetOk(r)
    \/ GetMissing(r)
    \/ CacheFail(r)

Next == (\E r \in Req : Receive(r) \/ Step(r)) \/ Tick

Spec == Init /\ [][Next]_vars

(***************************************************************************)
(* The service when requests do not overlap: a request begins only when    *)
(* every other one is idle or done.                                        *)
(***************************************************************************)
ReceiveAlone(r) ==
    /\ \A q \in Req \ {r} : pc[q] \in {"idle", "done"}
    /\ Receive(r)

SeqNext == (\E r \in Req : ReceiveAlone(r) \/ Step(r)) \/ Tick

SeqSpec == Init /\ [][SeqNext]_vars

(***************************************************************************)
(* Vocabulary of the properties.                                           *)
(***************************************************************************)
Range(s) == {s[i] : i \in DOMAIN s}

\* request r takes a step
Moves(r) == pc'[r] # pc[r]

\* the step in which request r calls Elasticsearch.update_user
UpdateUserCalled(r) ==
    /\ pc[r] = "upsert"
    /\ Moves(r)
    /\ ~UserRoles(headers[r], config).raised

\* request r found its entry valid at line 131 and has not answered yet
OnHitPath(r) == calls[r] # <<>> /\ calls[r][1] = "exists_ttl:valid"

\* request r found its entry absent or expired at line 131 and has not answered yet
OnMissPath(r) == calls[r] # <<>> /\ calls[r][1] = "exists_ttl:expired"

\* the password a cache entry holds
PasswordIn(entry) ==
    Utf8Decode(decrypt(Utf8Decode(entry.value), Utf8Encode(SECRET_KEY)))
CachedPassword(key) == PasswordIn(redis[key])

\* the text an Authorization header carries after "Basic "
Credentials(resp) ==
    Utf8Decode(B64Decode(SubSeq(resp.Authorization, Len(BasicPrefix) + 1,
                                Len(resp.Authorization))))

(***************************************************************************)
(* C1. Idempotent issuance.  When requests follow one another, no request  *)
(* calls update_user for a username whose cache entry is live (present,    *)
(* TTL > 0), and every Authorization a request answers with carries the    *)
(* password stored by the last Cache.set for its username.                 *)
(***************************************************************************)
C1_IdempotentIssuance ==
    [][\A r \in Req :
          /\ UpdateUserCalled(r) => ~Live(CacheKey(User(r)))
          /\ (pc[r] = "get" /\ Moves(r) /\ response'[r].kind = "auth")
                => Credentials(response'[r])
                     = User(r) \o <<ChColon>> \o lastIssued[User(r)]
      ]_vars

\* two requests in a row, the first issuing and the second served from the
\* cache, were answered with the same Authorization
C1_Witness ==
    /\ environ.KIBANA_USER_PASSWORD.isNone
    /\ pc[1] = "done" /\ pc[2] = "done"
    /\ response[1].kind = "auth"
    /\ response[2] = response[1]
    /\ posted[1] # <<>> /\ posted[2] = <<>>

(***************************************************************************)
(* C2. Cache/directory consistency: in every reachable state, for every    *)
(* username whose cache entry is live, the password the entry decrypts to  *)
(* is the password of the last successful upsert for that username.        *)
(***************************************************************************)
C2_CacheMatchesDirectory ==
    \A u \in Users :
        Live(CacheKey(u)) =>
            /\ u \in DOMAIN directory
            /\ CachedPassword(CacheKey(u)) = directory[u].password

(***************************************************************************)
(* C3. At most once per TTL: within one TTL window of a username (from a   *)
(* cache write until that entry expires) at most one request generates a   *)
(* password, upserts it and writes it.                                     *)
(***************************************************************************)
C3_AtMostOncePerTTL == \A u \in Users : Cardinality(window[u]) <= 1

(***************************************************************************)
(* C4. Upsert failure propagation: a request whose update_user POST was    *)
(* answered with a status other than 200 has ended in failure (status      *)
(* 500), has made no Cache.set, and the step in which the POST failed left *)
(* the whole cache, value and TTL, as it was.                              *)
(***************************************************************************)
UpsertRejected(r) == \E i \in DOMAIN posted[r] : posted[r][i].status_code # 200

FailedAfterRejection(r) ==
    UpsertRejected(r) =>
        /\ pc[r] = "done"
        /\ response[r].status = 500
        /\ response[r].kind \in {"error", "unhandled"}

C4_UpsertFailurePropagates ==
    [][\A r \in Req :
          /\ FailedAfterRejection(r)'
          /\ (UpsertRejected(r)' /\ ~UpsertRejected(r)) => redis' = redis
          /\ (pc[r] \in {"gate", "get_cache", "check", "connect", "authenticate",
                         "upsert"} /\ Moves(r))
                => redis' = redis
      ]_vars

\* a request ended by the TypeError of the rejected upsert, its username's
\* earlier entry (expired, not yet gone) still in the cache
C4_Witness ==
    \E r \in Req :
        /\ UpsertRejected(r)
        /\ response[r].error = "TypeError"
        /\ \E u \in Users : CacheExists(CacheKey(u)) /\ CacheTtl(CacheKey(u)) = 0

(***************************************************************************)
(* C5. Every failure on the issuance path is answered with status 500 and  *)
(* the JSON body {"error": message}: no request ends with an exception     *)
(* leaving check_user.                                                     *)
(***************************************************************************)
C5_FailuresAnsweredAsJson500 ==
    \A r \in Req :
        pc[r] = "done" =>
            /\ response[r].kind \in {"auth", "info", "error"}
            /\ response[r].kind = "error" => response[r].status = 500

(***************************************************************************)
(* C6. Anonymous path: a request with no, or an empty, Remote-User header  *)
(* is answered with status 200 and the informational body, and makes no    *)
(* cache call and no directory call.                                       *)
(***************************************************************************)
C6_AnonymousGetsInfo ==
    [][\A r \in Req :
          (pc[r] = "gate" /\ Moves(r)
             /\ ~Truthy(HeadersGet(headers[r], "Remote-User")))
          => /\ response'[r] = InfoResponse
             /\ redis' = redis
             /\ directory' = directory
      ]_vars

(***************************************************************************)
(* C7. Expiry-triggered regeneration: a request that finds its entry       *)
(* absent or with TTL <= 0 takes a password, POSTs update_user exactly     *)
(* once and, when the POST succeeds, writes the encrypted password to the  *)
(* cache with the full TTL, before it answers.                             *)
(***************************************************************************)
RegenerationOrder(r) ==
    /\ Len(posted[r]) <= 1
    /\ OnMissPath(r) =>
        /\ pc[r] \in {"connect", "authenticate", "upsert", "set", "extend", "get"}
        /\ password[r] # <<>>
        /\ pc[r] \in {"connect", "authenticate", "upsert"} => posted[r] = <<>>
        /\ pc[r] \in {"set", "extend", "get"} =>
               /\ Len(posted[r]) = 1
               /\ posted[r][1].status_code = 200
        /\ pc[r] \in {"extend", "get"} => "set" \in Range(calls[r])

C7_ExpiryTriggersRegeneration ==
    [][\A r \in Req :
          LET key == CacheKey(User(r))
          IN  /\ RegenerationOrder(r)'
              /\ (pc[r] = "check" /\ Expired(key) /\ Moves(r))
                    => pc'[r] = "connect" \/ response'[r].error = "ConnectionError"
              /\ (pc[r] = "check" /\ pc'[r] = "connect"
                    /\ environ.KIBANA_USER_PASSWORD.isNone)
                    => password'[r] # lastIssued[User(r)]
              /\ UpdateUserCalled(r) => Len(posted'[r]) = 1
              /\ (pc[r] = "set" /\ pc'[r] = "extend")
                    => /\ redis'[key].ttl = time_to_live
                       /\ PasswordIn(redis'[key]) = password[r]
              /\ (OnMissPath(r) /\ Moves(r) /\ response'[r].kind = "auth")
                    => "set" \in Range(calls[r])
      ]_vars

\* a request has regenerated: it missed, its POST was accepted, the entry it
\* wrote holds its password with the full TTL, and an earlier response for the
\* same username carries another password
C7_Witness ==
    \E r, q \in Req :
        /\ OnMissPath(r) /\ pc[r] = "get"
        /\ calls[r] = <<"exists_ttl:expired", "get_elasticsearch", "update_user", "set">>
        /\ CacheTtl(CacheKey(User(r))) = time_to_live
        /\ CachedPassword(CacheKey(User(r))) = password[r]
        /\ pc[q] = "done" /\ response[q].kind = "auth"
        /\ SubSeq(Credentials(response[q]), 1, 2) = User(r) \o <<ChColon>>
        /\ Credentials(response[q]) # User(r) \o <<ChColon>> \o password[r]

(***************************************************************************)
(* C8. Sliding-window renewal: a request that found a valid entry does not *)
(* contact the directory; with the extension flag enabled and the entry's  *)
(* TTL above 0 and below the full TTL at line 174, it resets the TTL to    *)
(* the full TTL and leaves the ciphertext as it is; with the flag disabled *)
(* it changes neither the value nor the TTL.                               *)
(***************************************************************************)
C8_SlidingWindowRenewal ==
    [][\A r \in Req :
          (OnHitPath(r) /\ Moves(r)) =>
              LET key == CacheKey(User(r))
              IN  /\ directory' = directory
                  /\ posted' = posted
                  /\ (pc[r] = "extend" /\ pc'[r] = "get"
                        /\ environ.ELASTAUTH_CACHE_EXTEND = "true"
                        /\ CacheTtl(key) > 0 /\ CacheTtl(key) < time_to_live)
                        => /\ DOMAIN redis' = DOMAIN redis
                           /\ redis'[key].ttl = time_to_live
                           /\ redis'[key].value = redis[key].value
                           /\ \A k \in DOMAIN redis \ {key} : redis'[k] = redis[k]
                  /\ environ.ELASTAUTH_CACHE_EXTEND # "true" => redis' = redis
      ]_vars

\* a request served from the cache has renewed its entry
C8_Witness ==
    \E r \in Req :
        /\ pc[r] = "get"
        /\ calls[r] = <<"exists_ttl:valid", "expire">>
        /\ CacheTtl(CacheKey(User(r))) = time_to_live

(***************************************************************************)
(* The role mapping on its own: a request stands before lines 141-167 with *)
(* any Remote-Groups header (or none) and any mapping table.               *)
(***************************************************************************)
HeaderStrings == UNION {[1..n -> {97, 98, ChComma}] : n \in 0..MaxHdrLen}

RoleHeaders ==
    {"Remote-User" :> Alice}
    \cup {("Remote-User" :> Alice) @@ ("Remote-Groups" :> g) : g \in HeaderStrings}

RoleConfigs ==
    [group_mappings :
        {NoMappings, Mappings,
         (<<97>> :> <<"editor", "editor">>) @@ (<<98>> :> <<"editor">>),
         (<<>> :> <<"nobody">>) @@ Mappings},
     default_role : {"default"}]

RoleInit ==
    /\ redis = [k \in {} |-> 0]
    /\ directory = [u \in {} |-> 0]
    /\ ELASTICSEARCH_OBJECT = 1
    /\ CACHE_OBJECT = 1
    /\ constructed = [Cache |-> 1, Elasticsearch |-> 1]
    /\ cache = [r \in Req |-> IF r = 1 THEN 1 ELSE NoObject]
    /\ elastic = [r \in Req |-> IF r = 1 THEN 1 ELSE NoObject]
    /\ environ \in Environments
    /\ config \in RoleConfigs
    /\ pc = [r \in Req |-> IF r = 1 THEN "upsert" ELSE "idle"]
    /\ \E h \in RoleHeaders : headers = [r \in Req |-> IF r = 1 THEN h ELSE NoHeaders]
    /\ password = [r \in Req |-> IF r = 1 THEN NewPassword(1) ELSE <<>>]
    /\ response = [r \in Req |-> NoResponse]
    /\ calls = [r \in Req |->
                   IF r = 1 THEN <<"exists_ttl:expired", "get_elasticsearch">> ELSE <<>>]
    /\ posted = [r \in Req |-> <<>>]
    /\ lastIssued = [u \in Users |-> <<>>]
    /\ window = [u \in Users |-> {}]

RoleNext == \E r \in Req : Upsert(r)

RoleSpec == RoleInit /\ [][RoleNext]_vars

\* the concatenation, in input order, of the mapped roles of the groups that
\* have a mapping; [default_role] when that is empty
RECURSIVE ConcatAll(_)
ConcatAll(pieces) ==
    IF pieces = <<>> THEN <<>>
    ELSE ConcatAll(SubSeq(pieces, 1, Len(pieces) - 1)) \o pieces[Len(pieces)]

ExpectedRoles(groups, cfg) ==
    LET pieces == [i \in 1..Len(groups) |->
                      IF groups[i] \in DOMAIN cfg.group_mappings
                      THEN cfg.group_mappings[groups[i]] ELSE <<>>]
        all == ConcatAll(pieces)
    IN  IF all = <<>> THEN <<cfg.default_role>> ELSE all

\* the group sequence of a request; none when the header is absent
GroupSequence(h) ==
    IF "Remote-Groups" \in DOMAIN h THEN Split(h["Remote-Groups"], ChComma) ELSE <<>>

(***************************************************************************)
(* C9, as stated. Role mapping: for every group sequence, an empty or      *)
(* absent one included, and every configuration, the roles sent to the     *)
(* directory are the concatenation in group order of the mapped roles,     *)
(* duplicates kept, or [default_role] when that is empty.                  *)
(***************************************************************************)
C9_RoleMapping ==
    [][\A r \in Req :
          (pc[r] = "upsert" /\ Moves(r)) =>
              /\ Len(posted'[r]) = 1
              /\ posted'[r][1].roles = ExpectedRoles(GroupSequence(headers[r]), config)
      ]_vars

(***************************************************************************)
(* C9, amended. Role mapping: for every Remote-Groups header that is       *)
(* present (an empty value is the one-group sequence [""]) and every       *)
(* configuration, the roles sent to the directory are the concatenation in *)
(* group order of the mapped roles, duplicates kept, or [default_role]     *)
(* when that is empty; without the header nothing is sent: the request     *)
(* ends on the AttributeError of None.split.                               *)
(***************************************************************************)
C9_RoleMappingOfPresentHeader ==
    [][\A r \in Req :
          (pc[r] = "upsert" /\ Moves(r)) =>
              IF "Remote-Groups" \in DOMAIN headers[r]
              THEN /\ Len(posted'[r]) = 1
                   /\ posted'[r][1].roles
                        = ExpectedRoles(GroupSequence(headers[r]), config)
              ELSE /\ posted'[r] = <<>>
                   /\ directory' = directory
                   /\ response'[r] = UnhandledResponse("AttributeError")
      ]_vars

\* groups "a,b" were sent as editor, viewer, admin
C9_Witness ==
    \E r \in Req :
        /\ Len(posted[r]) = 1
        /\ posted[r][1].roles = <<"editor", "viewer", "admin">>
        /\ Alice \in DOMAIN directory
        /\ directory[Alice].metadata.groups = << <<97>>, <<98>> >>

(***************************************************************************)
(* C10. End-to-end first issuance: a request with Remote-User u and a      *)
(* group header, no entry in the cache and no fixed password is answered   *)
(* with 200 and an Authorization that base64-decodes to u, a colon and a   *)
(* generated token of exactly 13 characters.                               *)
(***************************************************************************)
C10_FirstIssuanceToken ==
    [][\A r \in Req :
          (/\ OnMissPath(r) /\ pc[r] = "get" /\ Moves(r)
           /\ environ.KIBANA_USER_PASSWORD.isNone
           /\ response'[r].status = 200)
          => LET text == Credentials(response'[r])
                 u == User(r)
             IN  /\ SubSeq(text, 1, Len(u) + 1) = u \o <<ChColon>>
                 /\ Len(text) - (Len(u) + 1) = PASSWORD_LENGTH
      ]_vars

(***************************************************************************)
(* The cipher on its own: a request stands before lines 169-170, its       *)
(* upsert accepted, with any password of the plaintext set and any secret  *)
(* key; it encrypts, stores, reads back and decrypts.                      *)
(***************************************************************************)
\* plaintext lengths: one block, one byte less, one byte more, for each block
CipherLengths ==
    {n \in 1..((BLOCK_SIZE * MaxBlocks) + 1) : n % BLOCK_SIZE \in {0, 1, BLOCK_SIZE - 1}}

\* passwords whose UTF-8 encoding has one of those lengths: letters, mixed code
\* points, code points above 127
Plaintexts ==
    {p \in {[i \in 1..n |-> (c[1] + (i * c[2])) % 256] :
                n \in 1..((BLOCK_SIZE * MaxBlocks) + 1),
                c \in {<<96, 1>>, <<0, 37>>, <<200, 5>>}} :
        Len(Utf8Encode(p)) \in CipherLengths}

\* secret keys: the default "", "sk", and a key longer than a block
CipherKeys == {<<>>, <<115, 107>>, [i \in 1..(BLOCK_SIZE + 4) |-> 64 + i]}

CipherEnvironments ==
    [SECRET_KEY : CipherKeys,
     KIBANA_USER_PASSWORD : {PyNone},
     ELASTAUTH_CACHE_EXTEND : {"true", "false"}]

CipherInit ==
    /\ redis = [k \in {} |-> 0]
    /\ ELASTICSEARCH_OBJECT = 1
    /\ CACHE_OBJECT = 1
    /\ constructed = [Cache |-> 1, Elasticsearch |-> 1]
    /\ cache = [r \in Req |-> IF r = 1 THEN 1 ELSE NoObject]
    /\ elastic = [r \in Req |-> IF r = 1 THEN 1 ELSE NoObject]
    /\ environ \in CipherEnvironments
    /\ config = DefaultConfig
    /\ pc = [r \in Req |-> IF r = 1 THEN "set" ELSE "idle"]
    /\ headers = [r \in Req |->
                     IF r = 1 THEN ("Remote-User" :> Alice) @@ ("Remote-Groups" :> <<97>>)
                     ELSE NoHeaders]
    /\ \E p \in Plaintexts :
          /\ password = [r \in Req |-> IF r = 1 THEN p ELSE <<>>]
          /\ directory = (Alice :> [password |-> p, roles |-> <<"editor">>,
                                    metadata |-> [groups |-> << <<97>> >>]])
          /\ posted = [r \in Req |->
                          IF r = 1
                          THEN << [username |-> Alice, password |-> p,
                                   roles |-> <<"editor">>, status_code |-> 200] >>
                          ELSE <<>>]
    /\ response = [r \in Req |-> NoResponse]
    /\ calls = [r \in Req |->
                   IF r = 1
                   THEN <<"exists_ttl:expired", "get_elasticsearch", "update_user">>
                   ELSE <<>>]
    /\ lastIssued = [u \in Users |-> <<>>]
    /\ window = [u \in Users |-> {}]

CipherNext == \E r \in Req : Set(r) \/ Extend(r) \/ GetOk(r)

CipherSpec == CipherInit /\ [][CipherNext]_vars

(***************************************************************************)
(* C11. Cipher round-trip: for every non-empty plaintext p (longer than a  *)
(* block and of a length that is no multiple of the block size included)   *)
(* and every key k, decrypt(encrypt(p, k), k) = p, both on the ciphertext  *)
(* as encrypt returns it and on the ciphertext as it comes back from       *)
(* Cache.set followed by Cache.get; the response then carries p.           *)
(***************************************************************************)
C11_CipherRoundTrip ==
    [][\A r \in Req :
          LET key == CacheKey(User(r))
              p == Utf8Encode(password[r])
              k == Utf8Encode(SECRET_KEY)
          IN  /\ (pc[r] = "set" /\ pc'[r] = "extend") =>
                    /\ p # <<>>
                    /\ decrypt(redis'[key].value, k) = p
                    /\ decrypt(Utf8Decode(redis'[key].value), k) = p
              /\ (pc[r] = "get" /\ Moves(r) /\ response'[r].kind = "auth") =>
                    Credentials(response'[r]) = User(r) \o <<ChColon>> \o password[r]
      ]_vars

\* a password one byte longer than a block, with code points above 127, came
\* back through the cache under the empty key
C11_Witness ==
    \E r \in Req :
        /\ pc[r] = "done" /\ response[r].kind = "auth"
        /\ SECRET_KEY = <<>>
        /\ LET text == Credentials(response[r])
           IN  /\ Len(Utf8Encode(text)) = Len(Alice) + 1 + BLOCK_SIZE + 1
               /\ \E i \in DOMAIN text : text[i] > 127

(***************************************************************************)
(* C12. Convergence after the race: when the requests for a username all   *)
(* missed the cache, all had their upsert accepted, all wrote the cache    *)
(* and all have answered, the password the live cache entry decrypts to is *)
(* the password the directory holds for that username.                     *)
(***************************************************************************)
\* request r has completed an issuance for username u
IssuedFor(r, u) ==
    /\ pc[r] = "done"
    /\ response[r].kind = "auth"
    /\ Len(posted[r]) = 1
    /\ posted[r][1].username = u
    /\ posted[r][1].status_code = 200

C12_ConvergenceAfterRace ==
    \A u \in Users :
        ((\A r \in Req : IssuedFor(r, u)) /\ Live(CacheKey(u)))
            => CachedPassword(CacheKey(u)) = directory[u].password

(***************************************************************************)
(* C13. Singleton clients: at most one Cache and at most one Elasticsearch *)
(* client are ever constructed, all requests use the same Cache and the    *)
(* same client, whatever the interleaving of the first requests; and a     *)
(* failed construction of the Elasticsearch client stores nothing in the   *)
(* singleton.                                                              *)
(***************************************************************************)
OneOfEachClient ==
    /\ constructed.Cache <= 1
    /\ constructed.Elasticsearch <= 1
    /\ \A r, q \in Req :
          /\ (cache[r] # NoObject /\ cache[q] # NoObject) => cache[r] = cache[q]
          /\ (elastic[r] # NoObject /\ elastic[q] # NoObject) => elastic[r] = elastic[q]

C13_SingletonClients ==
    [][/\ OneOfEachClient'
       /\ \A r \in Req :
             (pc[r] = "authenticate" /\ Moves(r) /\ response'[r].kind = "error")
                => /\ ELASTICSEARCH_OBJECT' = ELASTICSEARCH_OBJECT
                   /\ constructed' = constructed
      ]_vars

(***************************************************************************)
(* C14. Cache-key determinism and injectivity: the key is "elastauth-"     *)
(* followed by the username, so different usernames have different keys;   *)
(* a step of a request for username u changes no cache entry but that of   *)
(* u (no entry of another username appears, vanishes or changes value or   *)
(* TTL), and the password it answers with is the one in the entry of u.    *)
(***************************************************************************)
\* usernames over "a", "b" and "-", the empty one included
Names == UNION {[1..n -> {97, 98, 45}] : n \in 0..MaxNameLen}

CacheKeyInjective ==
    \A u, v \in Names :
        /\ SubSeq(CacheKey(u), 1, 10) = <<101, 108, 97, 115, 116, 97, 117, 116, 104, 45>>
        /\ SubSeq(CacheKey(u), 11, Len(CacheKey(u))) = u
        /\ CacheKey(u) = CacheKey(v) => u = v

C14_CacheKeyIsolation ==
    [][/\ CacheKeyInjective
       /\ \A r \in Req :
             /\ (pc[r] \in {"idle", "gate"} /\ Moves(r)) => redis' = redis
             /\ (pc[r] \notin {"idle", "gate", "done"} /\ Moves(r)) =>
                   /\ \A k \in (DOMAIN redis \cup DOMAIN redis') \ {CacheKey(User(r))} :
                         /\ k \in DOMAIN redis
                         /\ k \in DOMAIN redis'
                         /\ redis'[k] = redis[k]
                   /\ response'[r].kind = "auth" =>
                         Credentials(response'[r])
                           = User(r) \o <<ChColon>> \o CachedPassword(CacheKey(User(r)))
      ]_vars

\* the entries of both usernames are in the cache, with different passwords,
\* and a request has been answered from one of them
C14_Witness ==
    /\ CacheExists(CacheKey(Alice)) /\ CacheExists(CacheKey(Bob))
    /\ CachedPassword(CacheKey(Alice)) # CachedPassword(CacheKey(Bob))
    /\ \E r \in Req :
          /\ pc[r] = "done" /\ response[r].kind = "auth"
          /\ Credentials(response[r])
               = Bob \o <<ChColon>> \o CachedPassword(CacheKey(Bob))

(***************************************************************************)
(* The service when the requests for one username do not overlap: a        *)
(* request with a username begins only when no request for that username   *)
(* is under way.  Requests for different usernames may overlap.            *)
(***************************************************************************)
Active(q) == pc[q] \notin {"idle", "done"}

ReceiveApart(r) ==
    /\ Receive(r)
    /\ \A q \in Req \ {r} :
          (Active(q) /\ "Remote-User" \in DOMAIN headers[q]
                     /\ "Remote-User" \in DOMAIN headers'[r])
             => headers'[r]["Remote-User"] # headers[q]["Remote-User"]

ApartNext == (\E r \in Req : ReceiveApart(r) \/ Step(r)) \/ Tick

ApartSpec == Init /\ [][ApartNext]_vars

(***************************************************************************)
(* C15. Sequential consistency: when the requests for a username do not    *)
(* overlap, in every reachable state a live cache entry of that username   *)
(* decrypts to the password of the last accepted upsert for it, which is   *)
(* also the plaintext of the last cache write; a request for it that is    *)
(* under way and missed the cache has already written the entry.  This     *)
(* holds after requests that failed at the directory connection, at the    *)
(* upsert or at the cache write after an accepted upsert.                  *)
(***************************************************************************)
C15_SequentialConsistency ==
    \A u \in Users :
        Live(CacheKey(u)) =>
            /\ u \in DOMAIN directory
            /\ CachedPassword(CacheKey(u)) = directory[u].password
            /\ lastIssued[u] = directory[u].password
            /\ \A r \in Req :
                  (OnMissPath(r) /\ User(r) = u) => pc[r] \in {"extend", "get"}

\* a request whose upsert was accepted failed on a cache call before its
\* password was stored; a later request for the same username issued another
\* password, which the live entry and the directory both hold
C15_Witness ==
    \E r \in Req :
        /\ pc[r] = "done"
        /\ response[r].error = "ConnectionError"
        /\ Len(posted[r]) = 1
        /\ posted[r][1].status_code = 200
        /\ LET u == posted[r][1].username
           IN  /\ Live(CacheKey(u))
               /\ directory[u].password # posted[r][1].password
               /\ CachedPassword(CacheKey(u)) = directory[u].password

(***************************************************************************)
(* C16. Upsert-before-cache ordering: a cache entry is written only by the *)
(* cache.set of a request whose update_user call, the call just before,    *)
(* was accepted with the same username and the same plaintext password;    *)
(* every password an Authorization header carries was accepted by the      *)
(* directory for that username in some upsert.                             *)
(***************************************************************************)
\* the passwords the directory has accepted for username u
Accepted(u) ==
    UNION {{posted[r][i].password :
               i \in {j \in 1..Len(posted[r]) :
                         posted[r][j].status_code = 200 /\ posted[r][j].username = u}} :
           r \in Req}

C16_UpsertBeforeCache ==
    [][/\ \A k \in DOMAIN redis' :
             (k \notin DOMAIN redis \/ redis'[k].value # redis[k].value)
                => \E r \in Req : /\ pc[r] = "set" /\ pc'[r] = "extend"
                                   /\ k = CacheKey(User(r))
       /\ \A r \in Req :
             /\ (pc[r] = "set" /\ pc'[r] = "extend") =>
                   /\ calls[r][Len(calls[r])] = "update_user"
                   /\ Len(posted[r]) = 1
                   /\ posted[r][1].status_code = 200
                   /\ posted[r][1].username = User(r)
                   /\ posted[r][1].password = password[r]
                   /\ PasswordIn(redis'[CacheKey(User(r))]) = password[r]
             /\ (pc[r] = "get" /\ Moves(r) /\ response'[r].kind = "auth") =>
                   \E p \in Accepted(User(r)) :
                       Credentials(response'[r]) = User(r) \o <<ChColon>> \o p
      ]_vars

\* a request that made no upsert was answered with the password accepted in
\* the upsert of another request
C16_Witness ==
    \E r, q \in Req :
        /\ r # q
        /\ pc[r] = "done" /\ response[r].kind = "auth"
        /\ posted[r] = <<>>
        /\ Len(posted[q]) = 1
        /\ posted[q][1].status_code = 200
        /\ Credentials(response[r])
             = posted[q][1].username \o <<ChColon>> \o posted[q][1].password

(***************************************************************************)
(* C17. No lapse between check and read: a request that found its entry    *)
(* valid at line 131, or has written it at line 170, finds the entry at    *)
(* the read of line 180 and answers 200 with an Authorization header, also *)
(* when time passes between the check and the read.  (A request ended by a *)
(* failing redis connection is not counted against the claim.)             *)
(***************************************************************************)
C17_NoLapseBeforeRead ==
    [][\A r \in Req :
          (/\ pc[r] = "get" /\ Moves(r)
           /\ (OnHitPath(r) \/ "set" \in Range(calls[r]))
           /\ response'[r].error # "ConnectionError")
          => /\ CacheExists(CacheKey(User(r)))
             /\ response'[r].status = 200
             /\ response'[r].kind = "auth"
      ]_vars

(***************************************************************************)
(* C18, as stated. TTL bound: in every reachable state every cache entry   *)
(* has an expiry, and its remaining TTL is greater than 0 and at most the  *)
(* full TTL.                                                               *)
(***************************************************************************)
C18_TtlBound ==
    \A k \in DOMAIN redis : redis[k].ttl > 0 /\ redis[k].ttl <= time_to_live

(***************************************************************************)
(* C18, amended. TTL bound: in every reachable state every cache entry has *)
(* an expiry (its TTL never reads -1), and the TTL it reads is at least 0  *)
(* and at most the full TTL; an entry in its last moments reads 0 and is   *)
(* still there, which is the expired entry line 131 tests for.             *)
(***************************************************************************)
C18_TtlBoundFromZero ==
    \A k \in DOMAIN redis :
        /\ redis[k].ttl # -1
        /\ redis[k].ttl >= 0
        /\ redis[k].ttl <= time_to_live

\* one entry reads 0 and is still there while the entry of a request under way
\* has been renewed to the full TTL by cache.expire
C18_Witness ==
    /\ \E k \in DOMAIN redis : redis[k].ttl = 0
    /\ \E r \in Req :
          /\ pc[r] = "get"
          /\ "expire" \in Range(calls[r])
          /\ CacheTtl(CacheKey(User(r))) = time_to_live

====
